---- MODULE Spec2Model ----
(***************************************************************************)
(* Model of the Docker Model Runner pipeline                               *)
(* (src/ui/src/assets/docker_model_runner.py, class Pipe).                 *)
(*                                                                         *)
(* SpecCatalog : Pipe.get_dmr_models and its model cache, one caller.      *)
(* SpecConc    : get_dmr_models called from two threads, line by line.     *)
(* SpecPipe    : Pipe.pipe on every request body, few upstream answers.    *)
(* SpecRelay   : the two dispatch modes against every upstream answer.     *)
(* SpecShape   : Pipe.process_messages on every kind of messages list.     *)
(***************************************************************************)
EXTENDS Integers, Sequences, FiniteSets, TLC

VARIABLES
    valves,             \* Pipe.valves: MODEL_CACHE_TTL, RETRY_COUNT
    now,                \* the wall clock read by time.time()
    model_cache,        \* Pipe._model_cache (None or a list of descriptors)
    model_cache_time,   \* Pipe._model_cache_time
    last,               \* observation of the last get_dmr_models call
    threads,            \* concurrent callers of get_dmr_models: where each stands
    writer,             \* which call wrote the cache and which its timestamp
    arg,                \* the request dict as the caller passed it to pipe
    body,               \* the caller's request dict, as pipe leaves it
    pc,                 \* where the current pipe call stands
    req,                \* what pipe decided: endpoint, mode, stream flag
    attempt,            \* the loop variable of the retry loop
    hist,               \* one entry per POST made: status, body, how it ended,
                        \* its connection and the fragments yielded from it
    sleeps,             \* the durations passed to time.sleep, in order
    conn,               \* the streaming response of the current attempt
    pos,                \* events of the current streaming body decoded so far
    seen,               \* what the line decoded last looked like
    out,                \* the fragments the generator has yielded, in order
    result              \* the value pipe / non_stream_response returned

concVars == <<threads, writer>>
catalogVars == <<now, model_cache, model_cache_time, last, threads, writer>>
pipeVars == <<arg, body, pc, req, attempt, hist, sleeps, conn, pos, seen, out, result>>
vars == <<valves, now, model_cache, model_cache_time, last, threads, writer,
          arg, body, pc, req, attempt, hist, sleeps, conn, pos, seen, out, result>>

----------------------------------------------------------------------------
(* Bounds *)

MaxTime  == 2       \* clock values 0..MaxTime
MaxTTL   == 2       \* MODEL_CACHE_TTL ranges over 0..MaxTTL
MaxRetry == 2       \* RETRY_COUNT ranges over 0..MaxRetry
MaxItems == 1       \* longest upstream /models list

----------------------------------------------------------------------------
(* JSON bodies of GET /models *)

Absent == "<absent>"

\* One element of the upstream list: a string, an object with optional id and
\* name keys, or any other JSON value (number, null, list).
Elems ==
    { [t |-> "str", id |-> "m1", name |-> Absent],
      [t |-> "obj", id |-> "m2", name |-> "n2"],
      [t |-> "obj", id |-> "m2", name |-> Absent],
      [t |-> "obj", id |-> Absent, name |-> Absent],
      [t |-> "other", id |-> Absent, name |-> Absent] }

ElemSeqs == UNION { [1..n -> Elems] : n \in 0..MaxItems }

\* What iterating a JSON string or the keys of a JSON object yields: strings.
StrSeqs == { s \in ElemSeqs : \A i \in 1..Len(s) : s[i].t = "str" }

\* A decoded body.  t: the top-level type; data: the type of the value under
\* the "data" key of an object ("absent" when the key is missing); items: the
\* elements that iterating the list (or the data value) yields.
Bodies ==
    { [t |-> "obj", data |-> "absent", items |-> <<>>],
      [t |-> "obj", data |-> "scalar", items |-> <<>>],
      [t |-> "other", data |-> "absent", items |-> <<>>] }
    \cup { [t |-> "obj", data |-> "list", items |-> s] : s \in ElemSeqs }
    \cup { [t |-> "obj", data |-> d, items |-> s] : d \in {"str", "dict"}, s \in StrSeqs }
    \cup { [t |-> "list", data |-> "absent", items |-> s] : s \in ElemSeqs }

\* A body that is not JSON at all.
BadJson == [t |-> "badjson", data |-> "absent", items |-> <<>>]

\* Status codes the upstream can answer with whose body the code goes on to
\* read (raise_for_status lets them pass), and those it rejects (4xx, 5xx).
PassCodes == {200, 300}
RejectCodes == {404, 500}

\* What requests.get can come back with: an exception of the transport, or a
\* response with a status and a body.  The body of a rejected response is
\* never read, so one body stands for all of them.
GetOutcomes ==
    { [kind |-> "neterr", code |-> 0, body |-> BadJson] }
    \cup { [kind |-> "http", code |-> c, body |-> b] : c \in PassCodes, b \in Bodies \cup {BadJson} }
    \cup { [kind |-> "http", code |-> c, body |-> [t |-> "list", data |-> "absent", items |-> <<>>]] :
             c \in RejectCodes }

----------------------------------------------------------------------------
(* get_dmr_models *)

\* str(model) of an object element
StrOf(model) == IF model.name = Absent THEN "{}" ELSE "{'name': 'n2'}"

\* dict.get(key, default)
Get(value, default) == IF value = Absent THEN default ELSE value

\* Response.raise_for_status: raises for 4xx and 5xx only.
RaiseForStatus(code) == 400 <= code /\ code < 600

\* The "OpenAI format" branch: model.get on every element of data["data"].
OpenAIItem(model) == [id |-> Get(model.id, "unknown"), name |-> Get(model.id, "unknown")]

\* The "list format" branch, one element.
ListItem(model) ==
    IF model.t = "str"
    THEN [id |-> model.id, name |-> model.id]
    ELSE [id |-> Get(model.id, StrOf(model)),
          name |-> Get(model.name, Get(model.id, StrOf(model)))]

RECURSIVE ListItems(_)
ListItems(s) ==
    IF s = <<>> THEN <<>>
    ELSE IF Head(s).t = "other" THEN ListItems(Tail(s))
    ELSE <<ListItem(Head(s))>> \o ListItems(Tail(s))

\* Lines 92-111: the parse of the decoded body.  ok = FALSE when it raises
\* (iterating a scalar, or .get on an element that is not an object).
ParseModels(data) ==
    IF data.t = "obj" /\ data.data # "absent"
    THEN IF data.data = "scalar"
         THEN [ok |-> FALSE, models |-> <<>>]
         ELSE IF \E i \in 1..Len(data.items) : data.items[i].t # "obj"
         THEN [ok |-> FALSE, models |-> <<>>]
         ELSE [ok |-> TRUE, models |-> [i \in 1..Len(data.items) |-> OpenAIItem(data.items[i])]]
    ELSE IF data.t = "list"
    THEN [ok |-> TRUE, models |-> ListItems(data.items)]
    ELSE [ok |-> TRUE, models |-> <<>>]

\* Lines 95-107: is the decoded body one of the three shapes the parse is
\* written for: an object whose "data" is a list of objects, a list of
\* strings, a list of objects.
Recognized(data) ==
    \/ /\ data.t = "obj" /\ data.data = "list"
       /\ \A i \in 1..Len(data.items) : data.items[i].t = "obj"
    \/ /\ data.t = "list"
       /\ \/ \A i \in 1..Len(data.items) : data.items[i].t = "str"
          \/ \A i \in 1..Len(data.items) : data.items[i].t = "obj"

\* Lines 88-92 and the parse: does the try block raise?
FetchRaises(resp) ==
    \/ resp.kind = "neterr"
    \/ RaiseForStatus(resp.code)
    \/ resp.body.t = "badjson"
    \/ ~ParseModels(resp.body).ok

\* The text of the exception, as far as the model tells failures apart.
FailureDetail(resp) ==
    IF resp.kind = "neterr" THEN "Could not fetch models: connection error"
    ELSE IF RaiseForStatus(resp.code) THEN "Could not fetch models: HTTP error"
    ELSE IF resp.body.t = "badjson" THEN "Could not fetch models: invalid JSON"
    ELSE "Could not fetch models: unexpected structure"

ErrorModels(resp) == << [id |-> "error", name |-> FailureDetail(resp)] >>

None == [isNone |-> TRUE, v |-> <<>>]
Some(models) == [isNone |-> FALSE, v |-> models]

\* The cache compared with <= : an entry whose age equals the TTL still answers.
CacheFresh_inclusive(force_refresh, current_time) ==
    /\ ~force_refresh
    /\ model_cache # None
    /\ (current_time - model_cache_time) <= valves.MODEL_CACHE_TTL

\* The cache tested for truth instead of `is not None`: an empty list counts
\* as no cache.
CacheFresh_truthy(force_refresh, current_time) ==
    /\ ~force_refresh
    /\ model_cache # None /\ model_cache.v # <<>>
    /\ (current_time - model_cache_time) < valves.MODEL_CACHE_TTL

\* Lines 80-84: the condition under which the cache answers.
CacheFresh(force_refresh, current_time) ==
    /\ ~force_refresh
    /\ model_cache # None
    /\ (current_time - model_cache_time) < valves.MODEL_CACHE_TTL

NoCall == [called |-> FALSE, force_refresh |-> FALSE, at |-> 0, served |-> FALSE,
           gets |-> 0, resp |-> "none", code |-> 0, recognized |-> FALSE, result |-> <<>>]

Observe(force_refresh, served, gets, resp, returned) ==
    [called |-> TRUE, force_refresh |-> force_refresh, at |-> now, served |-> served,
     gets |-> gets,
     resp |-> IF gets = 0 THEN "none"
              ELSE IF resp.kind = "neterr" THEN "neterr"
              ELSE IF resp.body.t = "badjson" THEN "badjson"
              ELSE IF ~ParseModels(resp.body).ok THEN "badshape"
              ELSE "parsed",
     code |-> IF gets = 0 THEN 0 ELSE resp.code,
     recognized |-> (gets = 1 /\ resp.kind = "http" /\ Recognized(resp.body)),
     result |-> returned]

get_dmr_models(force_refresh, resp) ==
    LET current_time == now IN
    /\ IF CacheFresh(force_refresh, current_time)
       THEN /\ last' = Observe(force_refresh, TRUE, 0, resp, model_cache.v)
            /\ UNCHANGED <<model_cache, model_cache_time>>
       ELSE IF FetchRaises(resp)
       THEN /\ last' = Observe(force_refresh, FALSE, 1, resp, ErrorModels(resp))
            /\ UNCHANGED <<model_cache, model_cache_time>>
       ELSE LET available_models == ParseModels(resp.body).models IN
            /\ model_cache' = Some(available_models)
            /\ model_cache_time' = current_time
            /\ last' = Observe(force_refresh, FALSE, 1, resp, available_models)
    /\ UNCHANGED <<valves, now>>
    /\ UNCHANGED concVars
    /\ UNCHANGED pipeVars

\* Pipe.pipes: the listing entry point.
pipes(resp) == get_dmr_models(FALSE, resp)

\* time.time() advances between calls.
Tick ==
    /\ now < MaxTime
    /\ now' = now + 1
    /\ UNCHANGED <<valves, model_cache, model_cache_time, last>>
    /\ UNCHANGED concVars
    /\ UNCHANGED pipeVars

ValvesSet == [MODEL_CACHE_TTL : 0..MaxTTL, RETRY_COUNT : 0..MaxRetry]

----------------------------------------------------------------------------
(* get_dmr_models called from several threads of one Pipe: every read and  *)
(* every write of an attribute of self is a step of its own.               *)

MaxCalls == 2       \* calls of get_dmr_models started by the threads together

Callers == {"t1", "t2"}

\* at: the line the thread stands before; t: its current_time; ticket: the
\* number of its call; models: its available_models; ret: what its last call
\* returned.
IdleThread ==
    [at |-> "idle", force_refresh |-> FALSE, t |-> 0, ticket |-> 0, models |-> <<>>,
     ret |-> None]

\* entries, time: the ticket of the call that wrote _model_cache and
\* _model_cache_time last (0: __init__); next: tickets handed out so far.
NoWriter == [entries |-> 0, time |-> 0, next |-> 0]

\* Line 79: the call starts and reads the clock.
ConcEnter(c, force_refresh) ==
    /\ threads[c].at = "idle"
    /\ writer.next < MaxCalls
    /\ writer' = [writer EXCEPT !.next = @ + 1]
    /\ threads' = [threads EXCEPT ![c] =
                      [at |-> "l81", force_refresh |-> force_refresh, t |-> now,
                       ticket |-> writer.next + 1, models |-> <<>>, ret |-> None]]
    /\ UNCHANGED <<valves, now, model_cache, model_cache_time, last>>
    /\ UNCHANGED pipeVars

\* Lines 81-82: not force_refresh and self._model_cache is not None
ConcReadCache(c) ==
    /\ threads[c].at = "l81"
    /\ threads' = [threads EXCEPT ![c].at =
                      IF ~threads[c].force_refresh /\ model_cache # None THEN "l83" ELSE "l89"]
    /\ UNCHANGED <<valves, now, model_cache, model_cache_time, last, writer>>
    /\ UNCHANGED pipeVars

\* Line 83: (current_time - self._model_cache_time) < TTL
ConcReadTime(c) ==
    /\ threads[c].at = "l83"
    /\ threads' = [threads EXCEPT ![c].at =
                      IF (threads[c].t - model_cache_time) < valves.MODEL_CACHE_TTL
                      THEN "l85" ELSE "l89"]
    /\ UNCHANGED <<valves, now, model_cache, model_cache_time, last, writer>>
    /\ UNCHANGED pipeVars

\* Line 85: return self._model_cache
ConcServe(c) ==
    /\ threads[c].at = "l85"
    /\ threads' = [threads EXCEPT ![c].at = "idle", ![c].ret = model_cache]
    /\ UNCHANGED <<valves, now, model_cache, model_cache_time, last, writer>>
    /\ UNCHANGED pipeVars

\* Lines 87-111 and 118-120: the GET and the parse, which touch no attribute
\* of self.
ConcFetch(c, resp) ==
    /\ threads[c].at = "l89"
    /\ threads' = [threads EXCEPT ![c] =
                      IF FetchRaises(resp)
                      THEN [@ EXCEPT !.at = "idle", !.ret = Some(ErrorModels(resp))]
                      ELSE [@ EXCEPT !.at = "l114", !.models = ParseModels(resp.body).models]]
    /\ UNCHANGED <<valves, now, model_cache, model_cache_time, last, writer>>
    /\ UNCHANGED pipeVars

\* Line 114: self._model_cache = available_models
ConcStoreCache(c) ==
    /\ threads[c].at = "l114"
    /\ model_cache' = Some(threads[c].models)
    /\ writer' = [writer EXCEPT !.entries = threads[c].ticket]
    /\ threads' = [threads EXCEPT ![c].at = "l115"]
    /\ UNCHANGED <<valves, now, model_cache_time, last>>
    /\ UNCHANGED pipeVars

\* Lines 115-116: self._model_cache_time = current_time; return
ConcStoreTime(c) ==
    /\ threads[c].at = "l115"
    /\ model_cache_time' = threads[c].t
    /\ writer' = [writer EXCEPT !.time = threads[c].ticket]
    /\ threads' = [threads EXCEPT ![c].at = "idle", ![c].ret = Some(threads[c].models)]
    /\ UNCHANGED <<valves, now, model_cache, last>>
    /\ UNCHANGED pipeVars


----------------------------------------------------------------------------
(* Text: a string is the sequence of its glyphs; " " is the only whitespace *)

Space == " "

RECURSIVE LStrip(_)
LStrip(t) == IF t # <<>> /\ Head(t) = Space THEN LStrip(Tail(t)) ELSE t

RECURSIVE RStrip(_)
RStrip(t) == IF t # <<>> /\ t[Len(t)] = Space THEN RStrip(SubSeq(t, 1, Len(t) - 1)) ELSE t

\* str.strip()
Strip(t) == RStrip(LStrip(t))

\* " ".join(parts)
RECURSIVE Join(_)
Join(parts) ==
    IF parts = <<>> THEN <<>>
    ELSE IF Len(parts) = 1 THEN parts[1]
    ELSE parts[1] \o <<Space>> \o Join(Tail(parts))

\* The note that stands in for an image part (line 157).
Placeholder == << "[Image content removed - not supported by Docker Model Runner]" >>

\* Values of a "text" key that are not strings.
AbsentText == << Absent >>
NullText == << "<null>" >>

----------------------------------------------------------------------------
(* process_model_id: a model id is the sequence of its "."-separated parts,  *)
(* "dmr.llama3" = <<"dmr", "llama3">>, "" = <<"">>, "dmr." = <<"dmr", "">>.  *)

\* Line 135: split(".", 1)[-1] drops the part before the first separator.
process_model_id(model_id) ==
    IF Len(model_id) > 1 THEN Tail(model_id) ELSE model_id

\* `not model_id`: the empty string
IsEmptyId(model_id) == model_id = << "" >>

----------------------------------------------------------------------------
(* process_messages *)

\* A loop that passes over image parts without the note.
PartTexts_noNote(item) ==
    IF item.type = "text" THEN << IF item.text = AbsentText THEN <<>> ELSE item.text >>
    ELSE << >>

\* Lines 152-157: what one content part adds to text_parts.
PartTexts(item) ==
    IF item.type = "text" THEN << IF item.text = AbsentText THEN <<>> ELSE item.text >>
    ELSE IF item.type = "image_url" THEN << Placeholder >>
    ELSE << >>

RECURSIVE TextParts(_)
TextParts(content) ==
    IF content = <<>> THEN <<>>
    ELSE PartTexts(Head(content)) \o TextParts(Tail(content))

\* Lines 147-162: the shaped content of one message; ok = FALSE when it raises
\* (a part that is not a dict, or a text that is not a string in the join).
ShapeContent(content) ==
    IF content.t = "list"
    THEN IF \E i \in 1..Len(content.parts) : content.parts[i].t # "dict"
         THEN [ok |-> FALSE, s |-> <<>>]
         ELSE LET text_parts == TextParts(content.parts) IN
              IF \E i \in 1..Len(text_parts) : text_parts[i] = NullText
              THEN [ok |-> FALSE, s |-> <<>>]
              ELSE [ok |-> TRUE, s |-> Strip(Join(text_parts))]
    ELSE IF content.t = "absent" THEN [ok |-> TRUE, s |-> <<>>]
    ELSE IF content.t = "str" THEN [ok |-> TRUE, s |-> content.s]
    ELSE [ok |-> TRUE, s |-> << "None" >>]

StrContent(s) == [t |-> "str", s |-> s, parts |-> <<>>]

\* Line 146 and 165: the processed message
Processed(message) ==
    [t |-> "dict", role |-> Get(message.role, "user"),
     content |-> StrContent(ShapeContent(message.content).s)]

\* Does processing this message raise?
MessageRaises(message) == message.t # "dict" \/ ~ShapeContent(message.content).ok

\* A filter that looks at the stripped content: a blank text is dropped.
RECURSIVE ProcessedList_stripped(_)
ProcessedList_stripped(messages) ==
    IF messages = <<>> THEN <<>>
    ELSE IF Strip(ShapeContent(Head(messages).content).s) # <<>>
    THEN << Processed(Head(messages)) >> \o ProcessedList_stripped(Tail(messages))
    ELSE ProcessedList_stripped(Tail(messages))

\* Lines 145-166: the loop over the messages, with the filter of line 165.
RECURSIVE ProcessedList(_)
ProcessedList(messages) ==
    IF messages = <<>> THEN <<>>
    ELSE IF ShapeContent(Head(messages).content).s # <<>>
    THEN << Processed(Head(messages)) >> \o ProcessedList(Tail(messages))
    ELSE ProcessedList(Tail(messages))

\* Lines 139-168.  messages: the value under the "messages" key, a list of
\* messages or something that is not a list.
process_messages(messages) ==
    IF messages.t # "list" \/ \E i \in 1..Len(messages.list) : MessageRaises(messages.list[i])
    THEN [ok |-> FALSE, list |-> <<>>]
    ELSE [ok |-> TRUE, list |-> ProcessedList(messages.list)]

----------------------------------------------------------------------------
(* Request bodies handed to pipe *)

MaxMsgs == 1        \* longest inbound messages list

\* The value under "model": missing, a string, or something else (null).
InModels ==
    { [t |-> "absent", segs |-> << "" >>],
      [t |-> "other", segs |-> << "" >>] }
    \cup { [t |-> "str", segs |-> m] :
             m \in { << "" >>, << "llama3" >>, << "dmr", "llama3" >>, << "dmr", "" >>,
                     << "dmr", "ai", "llama3" >> } }

TextPart(s) == [t |-> "dict", type |-> "text", text |-> s]
ImagePart == [t |-> "dict", type |-> "image_url", text |-> AbsentText]
ListContent(parts) == [t |-> "list", s |-> <<>>, parts |-> parts]

InMsgs ==
    { [t |-> "dict", role |-> "user", content |-> StrContent(<< "hi" >>)],
      [t |-> "dict", role |-> Absent, content |-> StrContent(<<>>)],
      [t |-> "dict", role |-> "user", content |-> ListContent(<< ImagePart >>)],
      [t |-> "dict", role |-> "user", content |-> ListContent(<< TextPart(<< Space >>) >>)],
      [t |-> "other", role |-> Absent, content |-> StrContent(<<>>)] }

\* The value under "messages": missing, a list of messages, or not a list.
InMessages ==
    { [t |-> "absent", list |-> <<>>], [t |-> "other", list |-> <<>>] }
    \cup { [t |-> "list", list |-> l] : l \in UNION { [1..n -> InMsgs] : n \in 0..MaxMsgs } }

InBodies ==
    [model : InModels, stream : {"absent", "false", "true"}, messages : InMessages,
     input : BOOLEAN, prompt : BOOLEAN]

\* Inputs of process_messages in more detail.
MaxParts == 2       \* longest list of content parts
MaxKept  == 2       \* longest messages list made of the plain messages

AudioPart == [t |-> "dict", type |-> "input_audio", text |-> AbsentText]
BadPart == [t |-> "other", type |-> Absent, text |-> AbsentText]

Parts ==
    { TextPart(<< "hi" >>), TextPart(<< Space >>), TextPart(<<>>), TextPart(AbsentText),
      TextPart(NullText), ImagePart, AudioPart, BadPart }

UserMsg(content) == [t |-> "dict", role |-> "user", content |-> content]

\* Every content: a string, a missing key, another scalar, or any list of
\* parts.
Contents ==
    { StrContent(<< "hi" >>), StrContent(<<>>), StrContent(<< Space >>),
      [t |-> "absent", s |-> <<>>, parts |-> <<>>], [t |-> "other", s |-> <<>>, parts |-> <<>>] }
    \cup { ListContent(ps) : ps \in UNION { [1..n -> Parts] : n \in 0..MaxParts } }

\* A few messages, to make longer lists of.
PlainMsgs ==
    { UserMsg(StrContent(<< "hi" >>)), UserMsg(StrContent(<<>>)), UserMsg(StrContent(<< Space >>)),
      UserMsg(ListContent(<< TextPart(<< Space >>) >>)),
      UserMsg(ListContent(<< TextPart(<< "yo" >>), ImagePart >>)),
      [t |-> "dict", role |-> "system", content |-> ListContent([i \in 1..MaxParts |-> ImagePart])] }

\* The messages lists: one message of any content, or up to MaxKept plain ones.
ShapeLists ==
    { << UserMsg(c) >> : c \in Contents }
    \cup UNION { [1..n -> PlainMsgs] : n \in 0..MaxKept }

ShapeBody(list) ==
    [model |-> [t |-> "str", segs |-> << "llama3" >>], stream |-> "false",
     messages |-> [t |-> "list", list |-> list], input |-> FALSE, prompt |-> FALSE]

NoBody ==
    [model |-> [t |-> "absent", segs |-> << "" >>], stream |-> "absent",
     messages |-> [t |-> "absent", list |-> <<>>], input |-> FALSE, prompt |-> FALSE]

\* What is kept of a decoded line: was it the [DONE] sentinel, did its first
\* choice carry a finish reason, what was that choice's delta, did the delta
\* have a content key, and did the generator yield on it (line 199).
NoEvent ==
    [line |-> "none", done |-> FALSE, finish |-> FALSE, delta |-> "absent", haskey |-> FALSE,
     yielded |-> FALSE]
NoReq == [endpoint |-> "none", mode |-> "none"]
NoResult == [t |-> "pending", v |-> ""]

\* 2 * attempt in place of 2 ** attempt
Pow2_product(n) == 2 * n

\* 2 ** n
RECURSIVE Pow2(_)
Pow2(n) == IF n = 0 THEN 1 ELSE 2 * Pow2(n - 1)

----------------------------------------------------------------------------
(* pipe *)

\* pipe returns an error string before any dispatch; the body keeps what pipe
\* had written into it by then.
Rejected(b, text) ==
    /\ body' = b
    /\ pc' = "done"
    /\ req' = NoReq
    /\ result' = [t |-> "error", v |-> text]
    /\ attempt' = 0 /\ hist' = <<>> /\ sleeps' = <<>>
    /\ conn' = "none" /\ pos' = 0 /\ seen' = NoEvent /\ out' = <<>>

\* Lines 283-286: hand over to stream_response (a generator, nothing runs
\* until it is consumed) or run non_stream_response.
Dispatch(b, endpoint, mode) ==
    /\ body' = b
    /\ pc' = mode
    /\ req' = [endpoint |-> endpoint, mode |-> mode]
    /\ result' = IF mode = "streaming" THEN [t |-> "generator", v |-> ""] ELSE NoResult
    /\ attempt' = 0 /\ hist' = <<>> /\ sleeps' = <<>>
    /\ conn' = "none" /\ pos' = 0 /\ seen' = NoEvent /\ out' = <<>>

\* A classification that falls through to /completions.
Endpoint_default(b) ==
    IF b.messages.t # "absent" THEN "/chat/completions"
    ELSE IF b.input THEN "/embeddings"
    ELSE "/completions"

\* A classification that looks at input before messages.
Endpoint_inputFirst(b) ==
    IF b.input THEN "/embeddings"
    ELSE IF b.messages.t # "absent" THEN "/chat/completions"
    ELSE IF b.prompt THEN "/completions"
    ELSE "none"

\* Lines 268-278
Endpoint(b) ==
    IF b.messages.t # "absent" THEN "/chat/completions"
    ELSE IF b.input THEN "/embeddings"
    ELSE IF b.prompt THEN "/completions"
    ELSE "none"

\* Streaming chosen on the stream flag alone.
Mode_anyEndpoint(b, endpoint) ==
    IF b.stream = "true" THEN "streaming" ELSE "buffered"

\* Line 283
Mode(b, endpoint) ==
    IF b.stream = "true" /\ endpoint = "/chat/completions" THEN "streaming" ELSE "buffered"

\* Lines 250-290, up to the dispatch.
pipe(b) ==
    /\ pc \in {"idle", "done"}
    /\ arg' = b
    /\ UNCHANGED <<valves, catalogVars>>
    /\ IF b.model.t = "other"
       THEN Rejected(b, "Error: argument of type 'NoneType' is not iterable")
       ELSE LET model_id == process_model_id(b.model.segs) IN
       IF IsEmptyId(model_id)
       THEN Rejected(b, "Error: No model specified")
       ELSE LET b1 == [b EXCEPT !.model = [t |-> "str", segs |-> model_id]] IN
       IF b1.messages.t # "absent" /\ ~process_messages(b1.messages).ok
       THEN Rejected(b1, "Error: exception in process_messages")
       ELSE LET b2 == IF b1.messages.t # "absent"
                      THEN [b1 EXCEPT !.messages =
                                [t |-> "list", list |-> process_messages(b1.messages).list]]
                      ELSE b1
                endpoint == Endpoint(b2)
            IN
       IF endpoint = "none"
       THEN Rejected(b2, "Error: Unable to determine request type")
       ELSE Dispatch(b2, endpoint, Mode(b2, endpoint))

\* The caller is done with the returned value; the next request may come.
Return ==
    /\ pc = "done"
    /\ pc' = "idle"
    /\ arg' = NoBody /\ body' = NoBody /\ req' = NoReq /\ result' = NoResult
    /\ attempt' = 0 /\ hist' = <<>> /\ sleeps' = <<>>
    /\ conn' = "none" /\ pos' = 0 /\ seen' = NoEvent /\ out' = <<>>
    /\ UNCHANGED <<valves, catalogVars>>

----------------------------------------------------------------------------
(* non_stream_response *)

\* Status codes of a POST.
PostCodes == {200, 201, 500}

\* Decoded bodies of a buffered response, by the keys the code looks at.
ChatBody(json, choices, choice, message, content) ==
    [json |-> json, choices |-> choices, choice |-> choice, message |-> message,
     content |-> content]

ChatBodies ==
    { ChatBody("bad", "absent", "obj", "absent", Absent),          \* not JSON, requests' JSONDecodeError
      ChatBody("bad_valueerror", "absent", "obj", "absent", Absent), \* not JSON, a plain ValueError
      ChatBody("scalar", "absent", "obj", "absent", Absent),       \* 5, null, true
      ChatBody("list", "absent", "obj", "absent", Absent),         \* []
      ChatBody("obj", "absent", "obj", "absent", Absent),          \* {"data": ...}
      ChatBody("obj", "empty", "obj", "absent", Absent),           \* {"choices": []}
      ChatBody("obj", "scalar", "obj", "absent", Absent),          \* {"choices": 5}
      ChatBody("obj", "list", "other", "absent", Absent),          \* {"choices": [5]}
      ChatBody("obj", "list", "obj", "absent", Absent),            \* {"choices": [{}]}
      ChatBody("obj", "list", "obj", "null", Absent),              \* {"choices": [{"message": null}]}
      ChatBody("obj", "list", "obj", "obj", Absent),               \* message without content
      ChatBody("obj", "list", "obj", "obj", "<null>"),             \* content: null
      ChatBody("obj", "list", "obj", "obj", "hello") }

\* The body of a response that is not read as a whole.
NoData == ChatBody("unread", "absent", "obj", "absent", Absent)

PostOutcomes ==
    { [kind |-> "neterr", code |-> 0, data |-> ChatBody("bad", "absent", "obj", "absent", Absent)] }
    \cup { [kind |-> "http", code |-> c, data |-> d] : c \in PostCodes, d \in ChatBodies }

\* Lines 226-234 on a 200 response: how the try block ends and what it returns.
NonStreamParse(data) ==
    IF data.json = "bad" THEN [end |-> "request_exc", result |-> NoResult]
    ELSE IF data.json \in {"bad_valueerror", "scalar"} THEN [end |-> "general_exc", result |-> NoResult]
    ELSE IF data.json = "list" \/ data.choices \in {"absent", "empty"}
    THEN [end |-> "ok", result |-> [t |-> "text", v |-> "str(data)"]]
    ELSE IF data.choices = "scalar" \/ data.choice # "obj" \/ data.message = "null"
    THEN [end |-> "general_exc", result |-> NoResult]
    ELSE IF data.message = "absent" \/ data.content = Absent
    THEN [end |-> "ok", result |-> [t |-> "text", v |-> "No response generated"]]
    ELSE IF data.content = "<null>"
    THEN [end |-> "ok", result |-> [t |-> "none", v |-> ""]]
    ELSE [end |-> "ok", result |-> [t |-> "text", v |-> data.content]]

\* Lines 221-244: how one iteration of the loop ends.
NonStreamEnd(o) ==
    IF o.kind = "neterr" THEN [end |-> "request_exc", result |-> NoResult]
    ELSE IF o.code # 200 THEN [end |-> "general_exc", result |-> NoResult]
    ELSE NonStreamParse(o.data)

\* One iteration of the retry loop of non_stream_response.
NonStreamAttempt(o) ==
    LET e == NonStreamEnd(o) IN
    /\ pc = "buffered"
    /\ hist' = Append(hist, [code |-> o.code, end |-> e.end,
                             conn |-> IF o.kind = "neterr" THEN "none" ELSE "closed",
                             frags |-> <<>>, data |-> o.data])
    /\ IF e.end = "ok"
       THEN /\ result' = e.result
            /\ pc' = "done"
            /\ UNCHANGED <<attempt, sleeps>>
       ELSE IF e.end = "general_exc"
       THEN /\ result' = [t |-> "error", v |-> "Error: exception"]
            /\ pc' = "done"
            /\ UNCHANGED <<attempt, sleeps>>
       ELSE IF attempt = valves.RETRY_COUNT
       THEN /\ result' = [t |-> "error", v |-> "Error: Request failed after all attempts"]
            /\ pc' = "done"
            /\ UNCHANGED <<attempt, sleeps>>
       ELSE /\ sleeps' = Append(sleeps, Pow2(attempt))
            /\ attempt' = attempt + 1
            /\ UNCHANGED <<result, pc>>
    /\ UNCHANGED <<arg, body, req, conn, pos, seen, out>>
    /\ UNCHANGED <<valves, catalogVars>>

----------------------------------------------------------------------------
(* stream_response *)

MaxEvents == 2      \* lines of one streaming body that are decoded

\* One line of a streaming body, by what the decoder looks at.
Event(line, payload, choices, choice, delta, content, finish) ==
    [line |-> line, payload |-> payload, choices |-> choices, choice |-> choice,
     delta |-> delta, content |-> content, finish |-> finish]

DataEvent(choices, choice, delta, content, finish) ==
    Event("data", "obj", choices, choice, delta, content, finish)

Events ==
    { Event("blank", "empty", "absent", "obj", "absent", Absent, FALSE),    \* empty line
      Event("nodata", "empty", "absent", "obj", "absent", Absent, FALSE),   \* no "data: " prefix
      Event("badutf8", "empty", "absent", "obj", "absent", Absent, FALSE),  \* not UTF-8
      Event("data", "done", "absent", "obj", "absent", Absent, FALSE),      \* data: [DONE]
      Event("data", "empty", "absent", "obj", "absent", Absent, FALSE),     \* data: <blanks>
      Event("data", "badjson", "absent", "obj", "absent", Absent, FALSE),   \* data: {oops
      Event("data", "scalar", "absent", "obj", "absent", Absent, FALSE),    \* data: 5
      Event("data", "list", "absent", "obj", "absent", Absent, FALSE),      \* data: []
      DataEvent("absent", "obj", "absent", Absent, FALSE),                  \* {}
      DataEvent("empty", "obj", "absent", Absent, FALSE),                   \* {"choices": []}
      DataEvent("dict", "obj", "absent", Absent, FALSE),                    \* {"choices": {"a": 1}}
      DataEvent("scalar", "obj", "absent", Absent, FALSE),                  \* {"choices": 5}
      DataEvent("list", "other", "absent", Absent, FALSE),                  \* {"choices": [5]}
      DataEvent("list", "obj", "null", Absent, FALSE),                      \* delta: null
      DataEvent("list", "obj", "null", Absent, TRUE),
      DataEvent("list", "obj", "absent", Absent, FALSE),
      DataEvent("list", "obj", "absent", Absent, TRUE),
      DataEvent("list", "obj", "obj", Absent, FALSE),                       \* delta: {}
      DataEvent("list", "obj", "obj", Absent, TRUE),
      DataEvent("list", "obj", "obj", "a", FALSE),
      DataEvent("list", "obj", "obj", "b", FALSE),
      DataEvent("list", "obj", "obj", "a", TRUE),
      DataEvent("list", "obj", "obj", "", FALSE),
      DataEvent("list", "obj", "obj", "", TRUE),
      DataEvent("list", "obj", "obj", "<null>", TRUE) }

\* A decoder without the elif of line 200: a finish reason is not looked at.
Decode_noFinish(ev) ==
    IF ev.line = "blank" THEN [act |-> "skip", text |-> ""]
    ELSE IF ev.line = "badutf8" THEN [act |-> "raise", text |-> ""]
    ELSE IF ev.line = "nodata" THEN [act |-> "skip", text |-> ""]
    ELSE IF ev.payload = "done" THEN [act |-> "break", text |-> ""]
    ELSE IF ev.payload = "empty" THEN [act |-> "skip", text |-> ""]
    ELSE IF ev.payload = "badjson" THEN [act |-> "skip", text |-> ""]
    ELSE IF ev.payload = "scalar" THEN [act |-> "raise", text |-> ""]
    ELSE IF ev.payload = "list" \/ ev.choices = "absent" THEN [act |-> "skip", text |-> ""]
    ELSE IF ev.choices = "scalar" THEN [act |-> "raise", text |-> ""]
    ELSE IF ev.choices = "empty" THEN [act |-> "skip", text |-> ""]
    ELSE IF ev.choices = "dict" THEN [act |-> "skip", text |-> ""]
    ELSE IF ev.choice # "obj" THEN [act |-> "raise", text |-> ""]
    ELSE IF ev.delta = "null" THEN [act |-> "raise", text |-> ""]
    ELSE IF ev.delta = "obj" /\ ev.content \notin {Absent, "", "<null>"}
    THEN [act |-> "yield", text |-> ev.content]
    ELSE [act |-> "skip", text |-> ""]

\* Lines 185-205: what the loop body does with one line.
\*   skip: go on to the next line; yield: hand out text, then go on;
\*   break: leave the loop; raise: an exception neither inner handler catches.
Decode(ev) ==
    IF ev.line = "blank" THEN [act |-> "skip", text |-> ""]
    ELSE IF ev.line = "badutf8" THEN [act |-> "raise", text |-> ""]
    ELSE IF ev.line = "nodata" THEN [act |-> "skip", text |-> ""]
    ELSE IF ev.payload = "done" THEN [act |-> "break", text |-> ""]
    ELSE IF ev.payload = "empty" THEN [act |-> "skip", text |-> ""]
    ELSE IF ev.payload = "badjson" THEN [act |-> "skip", text |-> ""]
    ELSE IF ev.payload = "scalar" THEN [act |-> "raise", text |-> ""]
    ELSE IF ev.payload = "list" \/ ev.choices = "absent" THEN [act |-> "skip", text |-> ""]
    ELSE IF ev.choices = "scalar" THEN [act |-> "raise", text |-> ""]
    ELSE IF ev.choices = "empty" THEN [act |-> "skip", text |-> ""]
    ELSE IF ev.choices = "dict" THEN [act |-> "skip", text |-> ""]
    ELSE IF ev.choice # "obj" THEN [act |-> "raise", text |-> ""]
    ELSE IF ev.delta = "null" THEN [act |-> "raise", text |-> ""]
    ELSE IF ev.delta = "obj" /\ ev.content # Absent
    THEN IF ev.content \notin {"", "<null>"}
         THEN [act |-> "yield", text |-> ev.content]
         ELSE [act |-> "skip", text |-> ""]
    ELSE IF ev.finish THEN [act |-> "break", text |-> ""]
    ELSE [act |-> "skip", text |-> ""]

FirstChoice(ev) ==
    ev.line = "data" /\ ev.payload = "obj" /\ ev.choices = "list" /\ ev.choice = "obj"

Seen(ev) ==
    [line |-> ev.line,
     done |-> (ev.line = "data" /\ ev.payload = "done"),
     finish |-> (FirstChoice(ev) /\ ev.finish),
     delta |-> IF FirstChoice(ev) THEN ev.delta ELSE "absent",
     haskey |-> (FirstChoice(ev) /\ ev.delta = "obj" /\ ev.content # Absent),
     yielded |-> (Decode(ev).act = "yield")]

Fragment(text) == [err |-> FALSE, text |-> text]
ErrorFragment(text) == [err |-> TRUE, text |-> text]

\* An attempt whose response is never closed.
EndAttempt_leak(h, end) == [h EXCEPT ![Len(h)].end = end]

\* The end of the current attempt is written into its hist entry.  The with
\* statement of line 174 has been left by then: a response that was opened
\* is closed.
EndAttempt(h, end) ==
    [h EXCEPT ![Len(h)] = [@ EXCEPT !.end = end,
                                    !.conn = IF @ = "open" THEN "closed" ELSE @]]

\* A handler that takes back what the failed attempt had yielded.
RequestFailed_restart(h, c) ==
    /\ hist' = EndAttempt(h, "request_exc")
    /\ conn' = c
    /\ IF attempt = valves.RETRY_COUNT
       THEN /\ out' = Append(out, ErrorFragment("Error: Request failed after all attempts"))
            /\ pc' = "done"
            /\ UNCHANGED <<attempt, sleeps>>
       ELSE /\ sleeps' = Append(sleeps, Pow2(attempt))
            /\ attempt' = attempt + 1
            /\ out' = SubSeq(out, 1, Len(out) - Len(h[Len(h)].frags))
            /\ UNCHANGED pc

\* Lines 207-212: the handler of requests.exceptions.RequestException.
\* c: the connection once the with block is left.
RequestFailed(h, c) ==
    /\ hist' = EndAttempt(h, "request_exc")
    /\ conn' = c
    /\ IF attempt = valves.RETRY_COUNT
       THEN /\ out' = Append(out, ErrorFragment("Error: Request failed after all attempts"))
            /\ pc' = "done"
            /\ UNCHANGED <<attempt, sleeps>>
       ELSE /\ sleeps' = Append(sleeps, Pow2(attempt))
            /\ attempt' = attempt + 1
            /\ UNCHANGED <<out, pc>>

\* The handler without its yield: the generator just stops.
GeneralFailed_silent(h, c) ==
    /\ hist' = EndAttempt(h, "general_exc")
    /\ conn' = c
    /\ pc' = "done"
    /\ UNCHANGED <<attempt, sleeps, out>>

\* Lines 213-216: the handler of every other Exception.
GeneralFailed(h, c) ==
    /\ hist' = EndAttempt(h, "general_exc")
    /\ conn' = c
    /\ out' = Append(out, ErrorFragment("Error: exception"))
    /\ pc' = "done"
    /\ UNCHANGED <<attempt, sleeps>>

\* Line 206: the body was read to its end or the loop was left by break.
Succeeded(h) ==
    /\ hist' = EndAttempt(h, "ok")
    /\ conn' = "closed"
    /\ pc' = "done"
    /\ UNCHANGED <<attempt, sleeps, out>>

\* An attempt is inside its with block.
Running == hist # <<>> /\ hist[Len(hist)].end = "running"

\* What requests.post(stream=True) comes back with.  readfail: reading the
\* body of the response (response.text) fails with a transport error.
StreamOutcomes ==
    { [kind |-> "neterr", code |-> 0, readfail |-> FALSE] }
    \cup { [kind |-> "http", code |-> c, readfail |-> r] : c \in PostCodes, r \in BOOLEAN }

\* A decoder that goes on where the attempt before it stopped.
FreshDecoder_resume == UNCHANGED <<pos, seen>>

\* Line 184: iter_lines of the new response starts at the first line of its
\* body; nothing decoded from an earlier response is kept.
FreshDecoder == pos' = 0 /\ seen' = NoEvent

\* Lines 174-182: the POST of one attempt and the status check.
StreamOpen(o) ==
    LET h == Append(hist, [code |-> o.code, end |-> "running",
                           conn |-> IF o.kind = "neterr" THEN "none" ELSE "open",
                           frags |-> <<>>, data |-> NoData]) IN
    /\ pc = "streaming"
    /\ ~Running
    /\ FreshDecoder
    /\ IF o.kind = "neterr"
       THEN RequestFailed(h, conn)
       ELSE IF o.code # 200
       THEN IF o.readfail
            THEN RequestFailed(h, "closed")
            ELSE GeneralFailed(h, "closed")
       ELSE /\ hist' = h
            /\ conn' = "open"
            /\ UNCHANGED <<attempt, sleeps, out, pc>>
    /\ UNCHANGED <<arg, body, req, result>>
    /\ UNCHANGED <<valves, catalogVars>>

\* Lines 184-205: one line of the body.
StreamLine(ev) ==
    LET d == Decode(ev) IN
    /\ pc = "streaming"
    /\ Running
    /\ pos < MaxEvents
    /\ pos' = pos + 1
    /\ seen' = Seen(ev)
    /\ IF d.act = "skip"
       THEN UNCHANGED <<hist, conn, attempt, sleeps, out, pc>>
       ELSE IF d.act = "yield"
       THEN /\ out' = Append(out, Fragment(d.text))
            /\ hist' = [hist EXCEPT ![Len(hist)].frags = Append(@, d.text)]
            /\ UNCHANGED <<conn, attempt, sleeps, pc>>
       ELSE IF d.act = "break"
       THEN Succeeded(hist)
       ELSE GeneralFailed(hist, "closed")
    /\ UNCHANGED <<arg, body, req, result>>
    /\ UNCHANGED <<valves, catalogVars>>

\* iter_lines is exhausted: the body ended.
StreamEOF ==
    /\ pc = "streaming"
    /\ Running
    /\ Succeeded(hist)
    /\ UNCHANGED <<arg, body, req, result, pos, seen>>
    /\ UNCHANGED <<valves, catalogVars>>

\* iter_lines raises a transport error in the middle of the body.
StreamDrop ==
    /\ pc = "streaming"
    /\ Running
    /\ RequestFailed(hist, "closed")
    /\ UNCHANGED <<arg, body, req, result, pos, seen>>
    /\ UNCHANGED <<valves, catalogVars>>

\* The caller closes the generator (or drops it) before it is exhausted.  A
\* generator can be closed where it is suspended: before its first step, or
\* at the yield of line 199, where GeneratorExit is raised; no handler of
\* lines 202-213 catches it and the with statement closes the response.
StreamClose ==
    /\ pc = "streaming"
    /\ hist = <<>> \/ (Running /\ seen.yielded)
    /\ IF hist = <<>>
       THEN UNCHANGED <<hist, conn>>
       ELSE /\ hist' = EndAttempt(hist, "closed")
            /\ conn' = "closed"
    /\ pc' = "done"
    /\ UNCHANGED <<arg, body, req, result, attempt, sleeps, pos, seen, out>>
    /\ UNCHANGED <<valves, catalogVars>>

----------------------------------------------------------------------------

\* Pipe.__init__
InitCatalog ==
    /\ valves \in { v \in ValvesSet : v.RETRY_COUNT = 0 }
    /\ now = 0
    /\ model_cache = None
    /\ model_cache_time = 0
    /\ last = NoCall
    /\ threads = [c \in Callers |-> IdleThread] /\ writer = NoWriter
    /\ arg = NoBody /\ body = NoBody /\ pc = "idle" /\ req = NoReq /\ result = NoResult
    /\ attempt = 0 /\ hist = <<>> /\ sleeps = <<>>
    /\ conn = "none" /\ pos = 0 /\ seen = NoEvent /\ out = <<>>

\* The answer of the upstream when no GET is made.
NoGet == [kind |-> "neterr", code |-> 0, body |-> BadJson]

\* The callers: pipes, which never forces, and a caller that forces a refresh.
\* An answer of the upstream is drawn only when the call makes a GET.
NextCatalog ==
    \/ /\ CacheFresh(FALSE, now)
       /\ pipes(NoGet)
    \/ /\ ~CacheFresh(FALSE, now)
       /\ \E r \in GetOutcomes : pipes(r)
    \/ \E r \in GetOutcomes : get_dmr_models(TRUE, r)
    \/ Tick

SpecCatalog == InitCatalog /\ [][NextCatalog]_vars

\* What the upstream answers while several threads ask.
ConcGets ==
    { r \in GetOutcomes :
        \/ r.kind = "neterr"
        \/ r.code = 200 /\ r.body.t = "list" /\ Len(r.body.items) = 1
                        /\ r.body.items[1].id # Absent /\ r.body.items[1].name = Absent }

\* Threads of the host calling pipes and get_dmr_models on one Pipe.
NextConc ==
    \/ \E c \in Callers, f \in BOOLEAN : ConcEnter(c, f)
    \/ \E c \in Callers : ConcReadCache(c)
    \/ \E c \in Callers : ConcReadTime(c)
    \/ \E c \in Callers : ConcServe(c)
    \/ \E c \in Callers, r \in ConcGets : ConcFetch(c, r)
    \/ \E c \in Callers : ConcStoreCache(c)
    \/ \E c \in Callers : ConcStoreTime(c)
    \/ Tick

SpecConc == InitCatalog /\ [][NextConc]_vars

InitPipe ==
    /\ valves \in { v \in ValvesSet : v.MODEL_CACHE_TTL = 0 }
    /\ now = 0 /\ model_cache = None /\ model_cache_time = 0 /\ last = NoCall
    /\ threads = [c \in Callers |-> IdleThread] /\ writer = NoWriter
    /\ arg = NoBody /\ body = NoBody /\ pc = "idle" /\ req = NoReq /\ result = NoResult
    /\ attempt = 0 /\ hist = <<>> /\ sleeps = <<>>
    /\ conn = "none" /\ pos = 0 /\ seen = NoEvent /\ out = <<>>

\* Every request body, against an upstream that answers in a few ways.
FewPosts == { o \in PostOutcomes : o.kind = "neterr" \/ (o.data.content = "hello" /\ o.code \in {200, 500}) }
FewOpens == { o \in StreamOutcomes : ~o.readfail /\ o.code \in {0, 200} }
FewEvents == { ev \in Events : ev.payload = "done" \/ (ev.content = "a" /\ ~ev.finish) }

NextPipe ==
    \/ pc = "idle" /\ \E b \in InBodies : pipe(b)
    \/ pc = "done" /\ pipe(body)
    \/ Return
    \/ pc = "buffered" /\ \E o \in FewPosts : NonStreamAttempt(o)
    \/ pc = "streaming" /\ \E o \in FewOpens : StreamOpen(o)
    \/ pc = "streaming" /\ \E ev \in FewEvents : StreamLine(ev)
    \/ StreamEOF
    \/ StreamDrop
    \/ StreamClose

SpecPipe == InitPipe /\ [][NextPipe]_vars

\* A few request bodies, against everything the upstream can answer.
ChatRequest(stream) ==
    [model |-> [t |-> "str", segs |-> << "dmr", "llama3" >>], stream |-> stream,
     messages |-> [t |-> "list",
                   list |-> << [t |-> "dict", role |-> "user", content |-> StrContent(<< "hi" >>)] >>],
     input |-> FALSE, prompt |-> FALSE]

RelayBodies ==
    { ChatRequest("true"), ChatRequest("false"),
      [ChatRequest("true") EXCEPT !.messages = [t |-> "absent", list |-> <<>>], !.input = TRUE],
      [ChatRequest("true") EXCEPT !.messages = [t |-> "other", list |-> <<>>]],
      [ChatRequest("absent") EXCEPT !.messages = [t |-> "absent", list |-> <<>>]] }

\* The lines of a streaming body; every fragment has the same text.
RelayEvents == { ev \in Events : ev.content # "b" }

NextRelay ==
    \/ pc = "idle" /\ \E b \in RelayBodies : pipe(b)
    \/ pc = "done" /\ pipe(body)
    \/ Return
    \/ pc = "buffered" /\ \E o \in PostOutcomes : NonStreamAttempt(o)
    \/ pc = "streaming" /\ \E o \in StreamOutcomes : StreamOpen(o)
    \/ pc = "streaming" /\ \E ev \in RelayEvents : StreamLine(ev)
    \/ StreamEOF
    \/ StreamDrop
    \/ StreamClose

SpecRelay == InitPipe /\ [][NextRelay]_vars

\* Chat requests with every kind of messages list, against an upstream that
\* answers or cannot be reached.
NextShape ==
    \/ pc = "idle" /\ \E l \in ShapeLists : pipe(ShapeBody(l))
    \/ Return
    \/ pc = "buffered" /\ \E o \in FewPosts : NonStreamAttempt(o)

SpecShape == InitPipe /\ [][NextShape]_vars

----------------------------------------------------------------------------
(* Properties of the model catalog (SpecCatalog) *)

\* A step that leaves the clock alone is a call of get_dmr_models.
CatalogCall == now' = now /\ last'.called

IsErrorList(models) == Len(models) = 1 /\ models[1].id = "error"

\* C1: the cache answers, with no GET and with the cached list as it is, if
\* and only if force_refresh is false, a cache exists and its age is strictly
\* below the TTL; every other call makes exactly one GET and returns either
\* the list that GET fetched (stored with the time of this call) or the error
\* descriptor, never the old entries.
C1_CacheServedIffFresh ==
    [][ CatalogCall =>
          LET fresh == /\ ~last'.force_refresh
                       /\ ~model_cache.isNone
                       /\ now - model_cache_time < valves.MODEL_CACHE_TTL
          IN /\ last'.served <=> fresh
             /\ fresh => /\ last'.gets = 0
                         /\ last'.result = model_cache.v
                         /\ model_cache' = model_cache
                         /\ model_cache_time' = model_cache_time
             /\ ~fresh => /\ last'.gets = 1
                          /\ \/ IsErrorList(last'.result)
                             \/ /\ model_cache' = Some(last'.result)
                                /\ model_cache_time' = now ]_vars

\* A call answered from a cache that is older than zero and not empty.
C1_Witness ==
    /\ last.called /\ last.served /\ last.gets = 0
    /\ last.result # <<>> /\ last.result = model_cache.v
    /\ last.at > model_cache_time

\* C2: a fetch that fails, by a network error, a status outside 2xx or a
\* malformed body, leaves the cached entries and the cached time as they were
\* and returns exactly one descriptor, whose id is "error".
C2_FailedFetchLeavesCache ==
    [][ ( /\ CatalogCall
          /\ last'.gets = 1
          /\ \/ last'.resp \in {"neterr", "badjson", "badshape"}
             \/ last'.code < 200 \/ last'.code > 299 )
        => /\ model_cache' = model_cache
           /\ model_cache_time' = model_cache_time
           /\ IsErrorList(last'.result) ]_vars

\* C3: a successful fetch replaces the cache by the parsed list and records
\* the time of the call, also when the list is empty; an empty cache inside
\* its TTL answers the next unforced call with the empty list and no GET.
C3_SuccessReplacesCache ==
    [][ CatalogCall =>
          /\ (last'.gets = 1 /\ last'.resp = "parsed" /\ last'.code < 400)
               => /\ model_cache' = Some(last'.result)
                  /\ model_cache_time' = now
          /\ ( /\ ~last'.force_refresh
               /\ model_cache = Some(<<>>)
               /\ now - model_cache_time < valves.MODEL_CACHE_TTL )
               => /\ last'.gets = 0
                  /\ last'.result = <<>>
                  /\ model_cache' = model_cache ]_vars

\* An empty list, fetched earlier, answers a later call without a GET.
C3_Witness ==
    /\ last.called /\ last.served /\ last.gets = 0 /\ ~last.force_refresh
    /\ last.result = <<>> /\ model_cache = Some(<<>>)
    /\ last.at > model_cache_time

----------------------------------------------------------------------------
(* Properties of the dispatch (SpecRelay) *)

Dispatched == req.mode # "none"

\* The dispatch ended in an error value: the returned string in buffered
\* mode, the last fragment in streaming mode.
ErrorValue ==
    IF req.mode = "streaming"
    THEN out # <<>> /\ out[Len(out)].err
    ELSE result.t = "error"

AllTransient ==
    /\ hist # <<>>
    /\ \A i \in 1..Len(hist) : hist[i].end = "request_exc"

\* C4: no dispatch makes more than RETRY_COUNT + 1 attempts; while every
\* attempt has ended in a transport failure, the sleeps so far are
\* 1, 2, 4, ..., one after each failed attempt but the last allowed one, and
\* the dispatch ends after RETRY_COUNT + 1 attempts and RETRY_COUNT sleeps
\* in an error value.
C4_RetryBudget ==
    /\ Len(hist) <= valves.RETRY_COUNT + 1
    /\ AllTransient =>
         /\ sleeps = [i \in 1..(IF pc = "done" THEN Len(hist) - 1 ELSE Len(hist)) |-> 2^(i - 1)]
         /\ pc = "done" => /\ Len(hist) = valves.RETRY_COUNT + 1
                           /\ Len(sleeps) = valves.RETRY_COUNT
                           /\ ErrorValue

\* Three connection failures with RETRY_COUNT = 2.
C4_Witness ==
    /\ pc = "done" /\ valves.RETRY_COUNT = 2
    /\ Len(hist) = 3 /\ \A i \in 1..3 : hist[i].code = 0 /\ hist[i].end = "request_exc"
    /\ sleeps = << 1, 2 >>
    /\ ErrorValue

\* C5: an attempt that received a status outside 2xx is the last attempt of
\* its dispatch: no sleep follows it and the dispatch has ended in an error
\* value.
C5_StatusErrorIsFinal ==
    \A i \in 1..Len(hist) :
        (hist[i].code # 0 /\ (hist[i].code < 200 \/ hist[i].code > 299))
        => /\ i = Len(hist)
           /\ pc = "done"
           /\ Len(sleeps) = i - 1
           /\ ErrorValue

\* The call has ended and its last step was a failure.
Failed ==
    /\ pc = "done"
    /\ \/ ~Dispatched
       \/ hist # <<>> /\ hist[Len(hist)].end \in {"request_exc", "general_exc"}

\* C6: a call that failed has handed text to the caller: a string that is an
\* error message in buffered mode and before dispatch, and in streaming mode
\* a sequence whose last element is the only Error fragment; an Error
\* fragment is never followed by anything.
C6_FailureIsText ==
    /\ pc = "done" => result.t \in {"error", "text", "none", "generator"}
    /\ (Failed /\ req.mode # "streaming") => result.t = "error"
    /\ (Failed /\ req.mode = "streaming") => (out # <<>> /\ out[Len(out)].err)
    /\ \A i \in 1..Len(out) : out[i].err => (i = Len(out) /\ Failed)

\* A stream that yielded text and then ended in its Error fragment.
C6_Witness ==
    /\ Failed /\ req.mode = "streaming"
    /\ Len(out) >= 2 /\ ~out[1].err /\ out[Len(out)].err

\* What the line decoded last was, for the end of a stream.
SeenDone == seen.done
SeenFinish == seen.finish
SeenBareFinish == seen.finish /\ seen.delta \in {"absent", "obj"} /\ ~seen.haskey

EndedInSuccess ==
    /\ pc = "done"
    /\ conn = "closed"
    /\ hist # <<>> /\ hist[Len(hist)].end = "ok"
    /\ \A i \in 1..Len(out) : ~out[i].err

\* C10 as stated: once a [DONE] line or a line whose first choice carries a
\* finish reason has been decoded, the stream has ended in success.
C10_EndsOnAnyFinish ==
    (SeenDone \/ SeenFinish) => EndedInSuccess

\* C10, amended: once a [DONE] line, or a line whose first choice carries a
\* finish reason and has no delta or a delta without a content key, has been
\* decoded, the stream has ended in success.
C10_EndsOnDoneOrBareFinish ==
    (SeenDone \/ SeenBareFinish) => EndedInSuccess

\* A fragment was yielded, then a finish reason ended the stream.
C10_Witness ==
    /\ SeenBareFinish /\ EndedInSuccess
    /\ out # <<>>

----------------------------------------------------------------------------
(* Properties of pipe (SpecPipe) *)

\* The model id is missing, or empty once the part before the first "." is
\* dropped.
NoModel(b) ==
    \/ b.model.t = "absent"
    \/ b.model.t = "str" /\ Len(b.model.segs) <= 2 /\ b.model.segs[Len(b.model.segs)] = ""

NoKind(b) == b.messages.t = "absent" /\ ~b.input /\ ~b.prompt

\* C7: a dispatch is in streaming mode if and only if the body asks for
\* streaming and the endpoint is /chat/completions; every other dispatch is
\* buffered.
C7_StreamingOnlyForChat ==
    Dispatched =>
        /\ req.mode \in {"streaming", "buffered"}
        /\ req.mode = "streaming" <=> (arg.stream = "true" /\ req.endpoint = "/chat/completions")

\* stream = true on an embeddings request: buffered.
C7_Witness ==
    /\ Dispatched /\ arg.stream = "true" /\ req.endpoint = "/embeddings"
    /\ req.mode = "buffered" /\ hist # <<>>

\* C8: a call whose model id is absent or empty after normalization, or whose
\* body has none of messages, input and prompt, has ended with an error string
\* and made no outbound call.
C8_RejectedWithoutCall ==
    (pc # "idle" /\ (NoModel(arg) \/ NoKind(arg)))
    => /\ pc = "done"
       /\ ~Dispatched
       /\ hist = <<>> /\ conn = "none"
       /\ result.t = "error"

\* A body with a model and none of the three fields.
C8_Witness ==
    /\ pc = "done" /\ arg.model.t = "str" /\ ~NoModel(arg) /\ NoKind(arg)
    /\ result = [t |-> "error", v |-> "Error: Unable to determine request type"]
    /\ hist = <<>>

\* C9: the endpoint of a dispatch is /chat/completions when the body has
\* messages, else /embeddings when it has input, else /completions when it
\* has prompt; a body with a model and input or prompt is dispatched.
C9_EndpointByPriority ==
    /\ Dispatched =>
         /\ arg.messages.t # "absent" => req.endpoint = "/chat/completions"
         /\ (arg.messages.t = "absent" /\ arg.input) => req.endpoint = "/embeddings"
         /\ (arg.messages.t = "absent" /\ ~arg.input /\ arg.prompt) => req.endpoint = "/completions"
         /\ ~NoKind(arg)
    /\ ( /\ pc # "idle" /\ arg.model.t = "str" /\ ~NoModel(arg)
         /\ arg.messages.t = "absent" /\ (arg.input \/ arg.prompt) ) => Dispatched

\* messages, input and prompt all present: chat.
C9_Witness ==
    /\ Dispatched /\ arg.messages.t = "list" /\ arg.input /\ arg.prompt
    /\ req.endpoint = "/chat/completions"

----------------------------------------------------------------------------
(* Properties of the streaming connection (SpecRelay) *)

\* The attempts of this dispatch whose response is open.
OpenConns == { i \in 1..Len(hist) : hist[i].conn = "open" }

\* C11: in streaming mode at most one connection of a dispatch is open at any
\* time, and it is the one of the attempt that is running; every attempt that
\* ended (by the end of the body, a break, a failure that is retried, a
\* terminal error or the caller closing the generator) has released its
\* connection, and none is open once the sequence has ended or been closed.
C11_ConnectionReleased ==
    /\ Cardinality(OpenConns) <= 1
    /\ \A i \in OpenConns : i = Len(hist) /\ hist[i].end = "running" /\ pc = "streaming"
    /\ \A i \in 1..Len(hist) :
          (hist[i].end # "running" /\ hist[i].code # 0) => hist[i].conn = "closed"
    /\ (conn = "open") <=> (OpenConns # {})
    /\ pc \in {"done", "idle"} => (OpenConns = {} /\ conn # "open")

\* An attempt dropped in the middle of its body, was retried, and the caller
\* closed the generator on a fragment of the second attempt.
C11_Witness ==
    /\ pc = "done" /\ req.mode = "streaming" /\ Len(hist) = 2
    /\ hist[1].code = 200 /\ hist[1].end = "request_exc" /\ hist[1].conn = "closed"
    /\ hist[2].code = 200 /\ hist[2].end = "closed" /\ hist[2].conn = "closed"
    /\ Len(out) >= 2 /\ \A i \in 1..Len(out) : ~out[i].err

----------------------------------------------------------------------------
(* Properties of the cache under concurrent callers (SpecConc) *)

\* C12: in every reachable state the cached entries and the cached time were
\* written by one and the same call of get_dmr_models (or are both as
\* __init__ left them): no state pairs the entries of one refresh with the
\* timestamp of another refresh or of the previous cache.
C12_CacheUpdatedAtomically ==
    writer.entries = writer.time

----------------------------------------------------------------------------
(* Properties of process_messages (SpecShape) *)

\* The call of process_messages made by this pipe call returned.
Shaped == pc # "idle" /\ Dispatched /\ arg.messages.t = "list"

\* The shaped content of the i-th inbound message.
ShapedContent(i) == ShapeContent(arg.messages.list[i].content).s

\* The inbound messages whose shaped content is empty.
EmptyShaped == { i \in 1..Len(arg.messages.list) : ShapedContent(i) = <<>> }

\* C13: the messages process_messages returns are the shaped inbound
\* messages, in their order, without those whose shaped content is the empty
\* string: none of them has empty content and their number is the number of
\* inbound messages minus the number of those shaped to the empty string.
C13_EmptyMessagesDropped ==
    Shaped =>
        LET inp == arg.messages.list
            outp == body.messages.list
            all == [i \in 1..Len(inp) |->
                      [t |-> "dict",
                       role |-> IF inp[i].role = Absent THEN "user" ELSE inp[i].role,
                       content |-> StrContent(ShapedContent(i))]]
        IN /\ \A j \in 1..Len(outp) : outp[j].content.t = "str" /\ outp[j].content.s # <<>>
           /\ Len(outp) = Len(inp) - Cardinality(EmptyShaped)
           /\ outp = SelectSeq(all, LAMBDA m : m.content.s # <<>>)

\* Two inbound messages: the first is shaped to the empty string and dropped,
\* the second is a blank string and kept.
C13_Witness ==
    /\ Shaped /\ Len(arg.messages.list) = 2 /\ EmptyShaped = {1}
    /\ arg.messages.list[1].content.t = "list"
    /\ Len(body.messages.list) = 1
    /\ body.messages.list[1].content.s = << Space >>

\* A content that is a list of one or more parts, all of them images.
OnlyImages(content) ==
    /\ content.t = "list" /\ content.parts # <<>>
    /\ \A k \in 1..Len(content.parts) :
          content.parts[k].t = "dict" /\ content.parts[k].type = "image_url"

\* Where the i-th inbound message stands in the output, if it is kept.
OutIndex(i) == i - Cardinality({ k \in EmptyShaped : k < i })

\* The placeholder n times, a blank between two of them.
RECURSIVE Notes(_)
Notes(n) == IF n = 1 THEN Placeholder ELSE Placeholder \o << Space >> \o Notes(n - 1)

\* C14 as stated: a message whose content is a list of one or more parts,
\* all images, is in the output with the placeholder text as its content.
C14_ImagesBecomePlaceholder ==
    Shaped =>
        \A i \in 1..Len(arg.messages.list) :
            OnlyImages(arg.messages.list[i].content)
            => /\ OutIndex(i) \in 1..Len(body.messages.list)
               /\ body.messages.list[OutIndex(i)].content.s = Placeholder

\* C14, amended: a message whose content is a list of n >= 1 parts, all
\* images, is in the output and its content is the placeholder text once per
\* image, joined by single blanks (the placeholder itself when n = 1).
C14_ImagesBecomeNotes ==
    Shaped =>
        \A i \in 1..Len(arg.messages.list) :
            OnlyImages(arg.messages.list[i].content)
            => /\ OutIndex(i) \in 1..Len(body.messages.list)
               /\ body.messages.list[OutIndex(i)].role = arg.messages.list[i].role
               /\ body.messages.list[OutIndex(i)].content.s
                    = Notes(Len(arg.messages.list[i].content.parts))

\* A message of two images after a dropped message.
C14_Witness ==
    /\ Shaped /\ Len(arg.messages.list) = 2 /\ EmptyShaped = {1}
    /\ OnlyImages(arg.messages.list[2].content)
    /\ Len(arg.messages.list[2].content.parts) = 2
    /\ body.messages.list = << [t |-> "dict", role |-> "system",
                                content |-> StrContent(Notes(2))] >>

----------------------------------------------------------------------------
(* The catalog and bodies of unknown shape (SpecCatalog) *)

\* C17: a call whose GET was answered 200 with a JSON body that has none of
\* the three recognized shapes returns the empty list, stores it in the cache
\* with the time of the call, and does not return the error descriptor.
C17_UnknownShapeIsEmpty ==
    [][ ( /\ CatalogCall
          /\ last'.gets = 1 /\ last'.code = 200
          /\ last'.resp \in {"badshape", "parsed"} /\ ~last'.recognized )
        => /\ last'.result = <<>>
           /\ model_cache' = Some(<<>>)
           /\ model_cache_time' = now ]_vars

----------------------------------------------------------------------------
(* Retries of a stream (SpecRelay) *)

\* The running attempt fails with a transport error in the middle of its
\* body and it is not the last attempt allowed.
MidStreamRetry ==
    /\ Running /\ attempt < valves.RETRY_COUNT
    /\ Len(hist') = Len(hist) /\ hist'[Len(hist)].end = "request_exc"

\* The next POST is made and answered 200.
NewAttempt ==
    /\ pc = "streaming" /\ Len(hist') = Len(hist) + 1 /\ hist'[Len(hist')].end = "running"

\* C15: a transport failure in the middle of a stream on an attempt that is
\* not the last one sleeps 2^attempt and goes to the next attempt, yielding
\* nothing; the next attempt decodes its body from the first line, with
\* nothing of the failed attempt's decoding kept, and what its first line
\* yields depends on that line alone.
C15_RetryRestartsStream ==
    [][ /\ MidStreamRetry =>
             /\ sleeps' = Append(sleeps, 2^attempt)
             /\ attempt' = attempt + 1
             /\ pc' = "streaming" /\ conn' = "closed" /\ out' = out
        /\ NewAttempt =>
             /\ pos' = 0 /\ seen' = NoEvent /\ out' = out
             /\ hist'[Len(hist')].frags = <<>>
             /\ SubSeq(hist', 1, Len(hist)) = hist
        /\ (Running /\ pos = 0 /\ pos' = 1) =>
             /\ seen.line = "none"
             /\ seen'.yielded <=> (out' = Append(out, Fragment("a")))
             /\ ~seen'.yielded => (out' = out \/ (pc' = "done" /\ out' = Append(out, ErrorFragment("Error: exception")))) ]_vars

\* The second attempt, after one fragment and a failure in the middle of the
\* first body, has decoded one line of its own body.
C15_Witness ==
    /\ Running /\ Len(hist) = 2 /\ attempt = 1 /\ sleeps = << 1 >>
    /\ hist[1].code = 200 /\ hist[1].end = "request_exc" /\ hist[1].frags = << "a" >>
    /\ pos = 1 /\ seen.yielded /\ hist[2].frags = << "a" >>

----------------------------------------------------------------------------
(* Stream events that are neither fragments nor the end (SpecRelay) *)

\* C16: a line that is neither [DONE] nor a finish-reason event never aborts
\* the stream: once such a line has been decoded, the attempt has not ended
\* in the Error fragment of the general handler, so the lines after it are
\* still decoded.
C16_EventsNeverAbort ==
    (seen.line # "none" /\ ~seen.done /\ ~seen.finish)
    => /\ hist # <<>> /\ hist[Len(hist)].end # "general_exc"
       /\ \A i \in 1..Len(out) : ~out[i].err \/ hist[Len(hist)].end = "request_exc"

----------------------------------------------------------------------------
(* Buffered responses with a 2xx status (SpecRelay) *)

\* C18: a buffered dispatch whose last response had a 2xx status and a JSON
\* body has returned a value derived from that body, never an error value:
\* the content of the first choice's message, the fallback string when there
\* is no content, the rendering of the whole body when there are no choices.
C18_Buffered2xxIsNotAnError ==
    (pc = "done" /\ req.mode = "buffered" /\ hist # <<>>) =>
        LET h == hist[Len(hist)] IN
        ( /\ 200 <= h.code /\ h.code <= 299
          /\ h.data.json \notin {"bad", "bad_valueerror"} )
        => /\ result.t # "error"
           /\ (h.data.json = "obj" /\ h.data.choices = "list" /\ h.data.content = "hello")
                => result = [t |-> "text", v |-> "hello"]
           /\ (h.data.json = "obj" /\ h.data.choices = "list" /\ h.data.content = Absent)
                => result = [t |-> "text", v |-> "No response generated"]
           /\ (h.data.json = "obj" /\ h.data.choices \in {"absent", "empty"})
                => result = [t |-> "text", v |-> "str(data)"]

----------------------------------------------------------------------------
(* pipe called again with the same body (SpecPipe) *)

\* The caller hands the body of the call that just ended to pipe again.
ReCall == pc = "done" /\ arg' = body /\ pc' # "idle" /\ hist' = <<>>

\* C19: a second call of pipe with the body object of a dispatched call is
\* dispatched with the same outbound request: the same model id, messages,
\* endpoint and mode.
C19_SecondCallSendsTheSame ==
    [][ (ReCall /\ Dispatched) =>
          /\ Dispatched'
          /\ body'.model = body.model
          /\ body'.messages = body.messages
          /\ req' = req ]_vars

----------------------------------------------------------------------------
(* What the caller of a stream has received (SpecRelay) *)

RECURSIVE Yielded(_)
\* The fragments of the attempts of h, one attempt after the other.
Yielded(h) ==
    IF h = <<>> THEN <<>>
    ELSE Yielded(SubSeq(h, 1, Len(h) - 1))
           \o [k \in 1..Len(h[Len(h)].frags) |-> Fragment(h[Len(h)].frags[k])]

\* C20: what the caller of a streaming dispatch has observed is, at every
\* moment, the fragments of the first attempt, then those of the second, and
\* so on, each attempt's fragments as it yielded them whether it failed
\* later or not, followed by one Error fragment if the dispatch ended in a
\* failure; nothing yielded is taken back when an attempt fails.
C20_FragmentsAccumulate ==
    req.mode = "streaming" =>
        LET n == Len(Yielded(hist)) IN
        /\ Len(out) >= n /\ SubSeq(out, 1, n) = Yielded(hist)
        /\ Len(out) <= n + 1
        /\ Len(out) = n + 1 <=> (Failed /\ out[Len(out)].err)

\* The first attempt yielded a fragment and failed, the second yielded the
\* same fragment again and ended: the caller has it twice.
C20_Witness ==
    /\ pc = "done" /\ req.mode = "streaming" /\ Len(hist) = 2
    /\ hist[1].end = "request_exc" /\ hist[1].frags = << "a" >>
    /\ hist[2].end = "ok" /\ hist[2].frags = << "a" >>
    /\ out = << Fragment("a"), Fragment("a") >>

====
